---- MODULE Spec2Model ----
(***************************************************************************)
(* The extraction scheduler of drivers/cclib_driver.py: the decorators     *)
(* extractor and property_extractor, ExtractorBase (step discovery, plan   *)
(* construction, plan cache, success gate, extract) and the two shipped    *)
(* extractors GenericExtractor and NTOExtractor.                           *)
(*                                                                         *)
(* One extractor instance is modelled.  Its class is fixed at Init: either *)
(* a shipped extractor or a small class of decorated / undecorated stub    *)
(* methods.  Every extract call is one step of the model (Spec).          *)
(*                                                                         *)
(* Further specifications run single steps on documents with numbers in   *)
(* them: EnergySpec (_extractor_restricted, _extractor_mos,                *)
(* _extractor_scf_energy), WindowSpec (_extractor_excited_states) and      *)
(* NtoSpec (_extract_nto_coefficients); RenderSpec runs render_mos of      *)
(* generate_report.py with cubegen_mo of drivers/cubegen_driver.py.        *)
(***************************************************************************)
EXTENDS Integers, Sequences, FiniteSets, TLC

\* Largest number of members of a stub extractor class.
MaxSteps == 3

VARIABLES
    members,        \* dir(self) restricted to the methods of the class, sorted by name
    method_list,    \* self._method_list
    metadata,       \* parsed.metadata in the last extract call (None if not exposed)
    error,          \* the exception the last extract call ended with (NoError if none)
    invoked,        \* the methods the last extract call invoked, in order
    result,         \* the local mapping `result` of the last extract call
    writes,         \* the <<key, method>> top-level assignments of the last call
    returned,       \* TRUE iff the last extract call returned its mapping
    constructed,    \* TRUE iff the last call executed _construct_method_list
    rounds,         \* iterations of the while loop in that execution (0 if none)
    prevReturned,   \* `invoked` of the latest earlier call that returned
    prevDepError,   \* `error` of the latest earlier call that failed in construction
    prevResult,     \* the mapping the latest earlier call returned, as its holder
                    \* sees it now (None if no earlier call returned)
    raised_on,      \* what the step that raised in the last call raised on
    round_of,       \* for each method of the list the last construction left,
                    \* the iteration of the while loop that added it
    discoveries,    \* executions of _get_all_extractor_methods in the last call
    step_parsed,    \* the input of the single step or function run by a step
                    \* specification (None under Spec)
    step_target     \* what that step or function works on, and its locals
                    \* (None under Spec)

schedulerVars == <<members, method_list, metadata, error, invoked, result, writes,
                   returned, constructed, rounds, prevReturned, prevDepError,
                   prevResult, raised_on, round_of, discoveries>>
stepVars == <<step_parsed, step_target>>
vars == <<schedulerVars, stepVars>>

----------------------------------------------------------------------------
(* Python values *)

\* Optional[List]: None, or a list.
None == [isNone |-> TRUE, items |-> <<>>]
List(s) == [isNone |-> FALSE, items |-> s]

\* Optional[Dict]: None, or a dict.
NoDict == [isNone |-> TRUE, items |-> {}]
Dict(d) == [isNone |-> FALSE, items |-> d]

\* Python truth value of an Optional[List]: None and [] are both false.
Truthy(v) == ~v.isNone /\ v.items # <<>>

\* A dict is a set of entries, one per key.  An entry of parsed.metadata is
\* <<key, value>>.  An entry of a result mapping is <<key, who, value>>: the
\* method that assigned the key last, and whether it stored None ("None") or
\* an object ("object").
EmptyDict == {}
DictKeys(d) == {p[1] : p \in d}

\* dict.get(key, default)
Get(d, key, default) ==
    IF key \in DictKeys(d) THEN (CHOOSE p \in d : p[1] = key)[2] ELSE default

\* A mapping in which an assignment never replaces an entry.
PutValueFirst(d, key, who, value) ==
    IF key \in DictKeys(d) THEN d ELSE d \cup {<<key, who, value>>}

\* target[key] = value, by method who.
PutValue(d, key, who, value) == {p \in d : p[1] # key} \cup {<<key, who, value>>}

\* target[key] = an object.
Put(d, key, who) == PutValue(d, key, who, "object")

\* getattr(parsed, attr) if the document exposes attr, else None.
ValueOf(exposed) == IF exposed THEN "object" ELSE "None"

RECURSIVE PutAll(_, _, _)
PutAll(d, keys, who) ==
    IF keys = {} THEN d
    ELSE LET k == CHOOSE x \in keys : TRUE
         IN PutAll(Put(d, k, who), keys \ {k}, who)

\* Exceptions.
NoError == [kind |-> "none", keys |-> {}, step |-> ""]
NotSuccessfulError == [kind |-> "NotSuccessful", keys |-> {}, step |-> ""]
DependencyError(missing) == [kind |-> "Dependency", keys |-> missing, step |-> ""]
StepError(name) == [kind |-> "Step", keys |-> {}, step |-> name]

----------------------------------------------------------------------------
(* The decorators *)

\* @extractor(dependencies, provides) on a method.
Extractor(name, dependencies, provides) ==
    [name |-> name, is_extractor |-> TRUE,
     dependencies |-> dependencies, provides |-> provides]

\* @property_extractor(ccdata_property, output_property) on a method.
PropertyExtractor(name, output_property) ==
    [name |-> name, is_extractor |-> TRUE,
     dependencies |-> {}, provides |-> {output_property}]

\* A method without decorator: it has no is_extractor attribute.
Plain(name) ==
    [name |-> name, is_extractor |-> FALSE, dependencies |-> {}, provides |-> {}]

----------------------------------------------------------------------------
(* The classes *)

\* The methods of GenericExtractor as dir() lists them (sorted by name).
GenericExtractor ==
    << Extractor("_extract_atom_data", {}, {"atom_symbols", "atom_numbers"}),
       Plain("_extractor_cc_energy"),
       PropertyExtractor("_extractor_charge", "charge"),
       Extractor("_extractor_excited_states",
                 {"scf_energy", "restricted", "optimization"}, {}),
       Extractor("_extractor_mos", {"restricted"}, {"mos"}),
       Plain("_extractor_mp_energy"),
       PropertyExtractor("_extractor_multiplicity", "multiplicity"),
       PropertyExtractor("_extractor_num_atoms", "num_atoms"),
       PropertyExtractor("_extractor_num_basis_sets", "num_basis_sets"),
       Extractor("_extractor_num_electrons", {}, {"num_electrons"}),
       Extractor("_extractor_optimizations", {"atom_symbols"},
                 {"optimization", "atom_coordinates"}),
       Extractor("_extractor_restricted", {}, {"restricted"}),
       Extractor("_extractor_scf_energy", {}, {"scf_energy"}),
       Plain("extract"),
       Extractor("extract_homo_index", {"multiplicity", "num_electrons"},
                 {"homo_index", "lumo_index", "unpaired_electrons"}) >>

\* The methods of NTOExtractor as dir() lists them.
NTOExtractor ==
    << Extractor("_extract_nto_coefficients", {}, {"nto_contributions"}),
       Plain("extract") >>

\* Stub classes: up to MaxSteps methods named in sorted order, each one
\* undecorated or decorated with @extractor over the keys x and y.
StubNames == <<"s1", "s2", "s3", "s4", "s5", "s6">>
StubDependencies == {{}, {"x"}, {"y"}, {"x", "y"}}
StubProvides == {{}, {"x"}, {"y"}}
StubKinds ==
    {[is_extractor |-> TRUE, dependencies |-> d, provides |-> p] :
        d \in StubDependencies, p \in StubProvides}
    \cup {[is_extractor |-> FALSE, dependencies |-> {}, provides |-> {}]}

StubClass(kinds) ==
    [i \in DOMAIN kinds |->
        [name |-> StubNames[i], is_extractor |-> kinds[i].is_extractor,
         dependencies |-> kinds[i].dependencies, provides |-> kinds[i].provides]]

StubClasses ==
    {StubClass(kinds) : kinds \in UNION {[1..n -> StubKinds] : n \in 0..MaxSteps}}

IsStubClass(class) == \A i \in DOMAIN class : class[i].name = StubNames[i]

Classes == {GenericExtractor, NTOExtractor} \cup StubClasses

----------------------------------------------------------------------------
(* Parsed documents *)

\* A parsed document: the attributes it exposes, its metadata dict, and the
\* stub methods whose body raises when run against it.
Document(attrs, meta, raising) ==
    [attrs |-> attrs, metadata |-> meta, raising |-> raising]

HasAttr(doc, attr) == attr \in doc.attrs

\* The attributes whose presence decides the control flow of a shipped step.
\* The documents expose no other attribute a step looks at (charge, natom,
\* nbasis, nmo, atomnos, scfenergies); an exposed attribute holds data of the
\* shape cclib produces, and an exposed etenergies holds at least one state
\* in its final block.
GenericAttributes ==
    {"mult", "nelectrons", "moenergies", "mosyms", "optstatus", "atomcoords",
     "converged_geometries", "etenergies", "etsyms", "etoscs", "etsecs"}
NTOAttributes == {"moenergies", "homos"}

\* The documents that fail the gate: no metadata, no success entry, success
\* false.  No step sees them, so their other attributes are left empty.
FailingDocuments ==
    { Document({}, EmptyDict, {}),
      Document({"metadata"}, EmptyDict, {}),
      Document({"metadata"}, {<<"success", FALSE>>}, {}) }

ExtractorNames(class) ==
    {class[i].name : i \in {j \in DOMAIN class : class[j].is_extractor}}

\* The documents that pass the gate, for an extractor of the class: every
\* subset of the attributes its steps look at; for a stub class, at most one
\* method raises.
PassingDocuments(class) ==
    LET data == IF class = GenericExtractor THEN SUBSET GenericAttributes
                ELSE IF class = NTOExtractor THEN SUBSET NTOAttributes
                ELSE {{}}
        raising == IF IsStubClass(class)
                   THEN {{}} \cup {{n} : n \in ExtractorNames(class)}
                   ELSE {{}}
    IN {Document({"metadata"} \cup a, {<<"success", TRUE>>}, r) :
            a \in data, r \in raising}

Documents(class) == FailingDocuments \cup PassingDocuments(class)

----------------------------------------------------------------------------
(* Step bodies.  A body maps (parsed, target) to                           *)
(*   [raised, fault, target, assigned]: whether it raised and on what, the *)
(*   mapping it leaves, and the top-level keys it assigned.                *)

\* What makes a body raise.
NoFault == [kind |-> "none", name |-> ""]
\* AttributeError: parsed.<attr> on a document that does not expose attr.
AttributeFault(attr) == [kind |-> "attribute", name |-> attr]
\* KeyError: target[key] on a mapping without key.
KeyFault(key) == [kind |-> "key", name |-> key]
\* TypeError: arithmetic on target[key] holding None.
NoneFault(key) == [kind |-> "None", name |-> key]
\* The raise of a stub method.
StubFault == [kind |-> "stub", name |-> ""]

Outcome(fault, target, assigned) ==
    [raised |-> fault # NoFault, fault |-> fault, target |-> target,
     assigned |-> assigned]

\* parsed.<attr> without a preceding hasattr(parsed, attr).
ReadAttr(doc, attr) == IF HasAttr(doc, attr) THEN NoFault ELSE AttributeFault(attr)

\* target[key] as an expression.
ReadKey(target, key) == IF key \in DictKeys(target) THEN NoFault ELSE KeyFault(key)

\* target[key] as an operand of arithmetic.
ReadNumber(target, key) ==
    IF key \notin DictKeys(target) THEN KeyFault(key)
    ELSE IF (CHOOSE p \in target : p[1] = key)[3] = "None" THEN NoneFault(key)
    ELSE NoFault

\* The first fault of a sequence of reads, in evaluation order.
RECURSIVE FirstFault(_)
FirstFault(reads) ==
    IF reads = <<>> THEN NoFault
    ELSE IF Head(reads) # NoFault THEN Head(reads)
    ELSE FirstFault(Tail(reads))

\* The _wrapper of property_extractor: one assignment on either branch.
PropertyBody(name, ccdata_property, output_property, doc, target) ==
    Outcome(NoFault,
            PutValue(target, output_property, name,
                     ValueOf(HasAttr(doc, ccdata_property))),
            {output_property})

\* None without moenergies, else a bool.
RestrictedBody(name, doc, target) ==
    Outcome(NoFault,
            PutValue(target, "restricted", name,
                     ValueOf(HasAttr(doc, "moenergies"))),
            {"restricted"})

\* target['restricted'] is read only when moenergies or mosyms is exposed.
MosBody(name, doc, target) ==
    Outcome(IF HasAttr(doc, "moenergies") \/ HasAttr(doc, "mosyms")
            THEN ReadKey(target, "restricted") ELSE NoFault,
            Put(target, "mos", name), {"mos"})

NumElectronsBody(name, doc, target) ==
    Outcome(NoFault,
            PutValue(target, "num_electrons", name,
                     ValueOf(HasAttr(doc, "nelectrons"))),
            {"num_electrons"})

AtomDataBody(name, doc, target) ==
    Outcome(NoFault, Put(target, "atoms", name), {"atoms"})

\* After target['optimization_steps'] = ...: the right-hand side reads
\* atomcoords / converged_geometries without a presence check, then
\* target['atoms'] is subscripted.
OptimizationsBody(name, doc, target) ==
    LET geometry == IF HasAttr(doc, "optstatus") THEN "converged_geometries"
                    ELSE "atomcoords"
    IN Outcome(FirstFault(<<ReadAttr(doc, geometry), ReadKey(target, "atoms")>>),
               Put(target, "optimization_steps", name), {"optimization_steps"})

ScfEnergyBody(name, doc, target) ==
    Outcome(NoFault,
            PutValue(target, "scf_energy", name,
                     ValueOf(HasAttr(doc, "scfenergies"))),
            {"scf_energy"})

\* With etenergies exposed: reads target['optimization_steps'], then per
\* state etsyms, etoscs, etsecs and target['restricted'].
ExcitedStatesBody(name, doc, target) ==
    Outcome(IF HasAttr(doc, "etenergies")
            THEN FirstFault(<<ReadKey(target, "optimization_steps"),
                              ReadAttr(doc, "etsyms"), ReadAttr(doc, "etoscs"),
                              ReadAttr(doc, "etsecs"),
                              ReadKey(target, "restricted")>>)
            ELSE NoFault,
            Put(target, "excited_states", name), {"excited_states"})

\* target['multiplicity'] - 1 raises when the key is missing or holds None;
\* likewise target['num_electrons'] one line later.
HomoIndexBody(name, doc, target) ==
    IF ReadNumber(target, "multiplicity") # NoFault
    THEN Outcome(ReadNumber(target, "multiplicity"), target, {})
    ELSE IF ReadNumber(target, "num_electrons") # NoFault
    THEN Outcome(ReadNumber(target, "num_electrons"),
                 Put(target, "unpaired_electrons", name), {"unpaired_electrons"})
    ELSE Outcome(NoFault,
                 PutAll(target, {"unpaired_electrons", "homo_index", "lumo_index"},
                        name),
                 {"unpaired_electrons", "homo_index", "lumo_index"})

\* parsed.homos is read without a presence check once moenergies is exposed.
NtoCoefficientsBody(name, doc, target) ==
    Outcome(IF HasAttr(doc, "moenergies") THEN ReadAttr(doc, "homos") ELSE NoFault,
            PutValue(target, "nto_contributions", name,
                     ValueOf(HasAttr(doc, "moenergies"))),
            {"nto_contributions"})

\* A stub method: raises on the documents that make it raise, and otherwise
\* assigns the keys it declares.
StubBody(method, doc, target) ==
    IF method.name \in doc.raising
    THEN Outcome(StubFault, target, {})
    ELSE Outcome(NoFault, PutAll(target, method.provides, method.name),
                 method.provides)

\* method(parsed, result)
Call(method, doc, target) ==
    LET n == method.name IN
    CASE n = "_extract_atom_data"        -> AtomDataBody(n, doc, target)
      [] n = "_extractor_charge"         -> PropertyBody(n, "charge", "charge", doc, target)
      [] n = "_extractor_excited_states" -> ExcitedStatesBody(n, doc, target)
      [] n = "_extractor_mos"            -> MosBody(n, doc, target)
      [] n = "_extractor_multiplicity"   -> PropertyBody(n, "mult", "multiplicity", doc, target)
      [] n = "_extractor_num_atoms"      -> PropertyBody(n, "natom", "num_atoms", doc, target)
      [] n = "_extractor_num_basis_sets" -> PropertyBody(n, "nbasis", "num_basis_sets", doc, target)
      [] n = "_extractor_num_electrons"  -> NumElectronsBody(n, doc, target)
      [] n = "_extractor_optimizations"  -> OptimizationsBody(n, doc, target)
      [] n = "_extractor_restricted"     -> RestrictedBody(n, doc, target)
      [] n = "_extractor_scf_energy"     -> ScfEnergyBody(n, doc, target)
      [] n = "extract_homo_index"        -> HomoIndexBody(n, doc, target)
      [] n = "_extract_nto_coefficients" -> NtoCoefficientsBody(n, doc, target)
      [] OTHER                           -> StubBody(method, doc, target)

----------------------------------------------------------------------------
(* ExtractorBase *)

RECURSIVE SelectExtractors(_, _)
SelectExtractors(class, i) ==
    IF i > Len(class) THEN <<>>
    ELSE IF class[i].is_extractor
    THEN <<class[i]>> \o SelectExtractors(class, i + 1)
    ELSE SelectExtractors(class, i + 1)

\* A discovery that takes every member, decorated or not.
GetAllMembers(class) == class

\* _get_all_extractor_methods: the members that carry is_extractor, in
\* dir() order.
GetAllExtractorMethods(class) == SelectExtractors(class, 1)

\* A scan that never looks at the dependencies.
DependenciesIgnored(method, provides_set) == TRUE

\* A scan that accepts a method as soon as one dependency is provided.
DependenciesMetAny(method, provides_set) ==
    \/ method.dependencies = {}
    \/ \E dependency \in method.dependencies : dependency \in provides_set

\* The for/else over method.dependencies: no dependency is missing from
\* provides_set.
DependenciesMet(method, provides_set) ==
    \A dependency \in method.dependencies : dependency \in provides_set

\* One pass of `for method in unprocessed_methods`: provides_set grows as
\* soon as a method is added.
RECURSIVE ScanRound(_, _, _, _)
ScanRound(unprocessed_methods, i, method_added, provides_set) ==
    IF i > Len(unprocessed_methods)
    THEN [method_added |-> method_added, provides_set |-> provides_set]
    ELSE LET method == unprocessed_methods[i] IN
         IF DependenciesMet(method, provides_set)
         THEN ScanRound(unprocessed_methods, i + 1, Append(method_added, method),
                        provides_set \cup method.provides)
         ELSE ScanRound(unprocessed_methods, i + 1, method_added, provides_set)

\* A removal that stops after the first method added.
RemoveAddedFirst(unprocessed_methods, method_added) ==
    SelectSeq(unprocessed_methods,
              LAMBDA m : method_added = <<>> \/ method_added[1] # m)

\* unprocessed_methods.remove(method) for every method added.
RemoveAdded(unprocessed_methods, method_added) ==
    SelectSeq(unprocessed_methods,
              LAMBDA m : \A j \in DOMAIN method_added : method_added[j] # m)

\* A list that takes new items at its front.
ExtendFront(list, items) == items \o list

\* list.extend(items)
Extend(list, items) == list \o items

\* A construction that scans the methods once.
ConstructLoopOnce(list, placed, unprocessed_methods, provides_set, n) ==
    LET round == ScanRound(unprocessed_methods, 1, <<>>, provides_set)
    IN [method_list |-> Extend(list, round.method_added),
        round_of |-> Extend(placed, [j \in DOMAIN round.method_added |-> n + 1]),
        unprocessed_methods |-> RemoveAdded(unprocessed_methods, round.method_added),
        provides_set |-> round.provides_set, rounds |-> n + 1]

\* The while loop: iterations until one adds nothing.  placed runs along
\* list and holds the iteration that added each method.
RECURSIVE ConstructLoop(_, _, _, _, _)
ConstructLoop(list, placed, unprocessed_methods, provides_set, n) ==
    LET round == ScanRound(unprocessed_methods, 1, <<>>, provides_set)
        rest == RemoveAdded(unprocessed_methods, round.method_added)
    IN IF round.method_added = <<>>
       THEN [method_list |-> list, round_of |-> placed,
             unprocessed_methods |-> rest,
             provides_set |-> round.provides_set, rounds |-> n + 1]
       ELSE ConstructLoop(Extend(list, round.method_added),
                          Extend(placed, [j \in DOMAIN round.method_added |-> n + 1]),
                          rest, round.provides_set, n + 1)

\* A construction that never reports the methods it could not place.
UnfulfilledIgnored(unprocessed_methods) == FALSE

\* `if unprocessed_methods:` after the loop.
Unfulfilled(unprocessed_methods) == unprocessed_methods # <<>>

AllDependencies(methods) ==
    UNION {methods[i].dependencies : i \in DOMAIN methods}

\* An error message that lists every dependency, satisfied or not.
MissingDependenciesAll(class, provides_set) ==
    AllDependencies(GetAllExtractorMethods(class))

\* missing_dependencies of the error message.
MissingDependencies(class, provides_set) ==
    AllDependencies(GetAllExtractorMethods(class)) \ provides_set

\* _construct_method_list: the value left in self._method_list and the
\* exception raised, if any.
ConstructMethodList(class) ==
    LET loop == ConstructLoop(<<>>, <<>>, GetAllExtractorMethods(class), {}, 0)
    IN [method_list |-> List(loop.method_list),
        error |-> IF Unfulfilled(loop.unprocessed_methods)
                  THEN DependencyError(
                           MissingDependencies(class, loop.provides_set))
                  ELSE NoError,
        constructed |-> TRUE,
        rounds |-> loop.rounds,
        round_of |-> loop.round_of,
        discoveries |-> IF Unfulfilled(loop.unprocessed_methods) THEN 2 ELSE 1]

\* `if not self._method_list`
NeedsConstruction(cached) == ~Truthy(cached)

\* _all_methods
AllMethods(class, cached) ==
    IF NeedsConstruction(cached)
    THEN ConstructMethodList(class)
    ELSE [method_list |-> cached, error |-> NoError,
          constructed |-> FALSE, rounds |-> 0, discoveries |-> 0]

\* A gate that takes a missing success entry for success.
IsSuccessByDefault(doc) ==
    IF ~HasAttr(doc, "metadata") THEN FALSE
    ELSE Get(doc.metadata, "success", TRUE)

\* _is_success
IsSuccess(doc) ==
    IF ~HasAttr(doc, "metadata") THEN FALSE
    ELSE Get(doc.metadata, "success", FALSE)

\* A loop that catches what a step raises and carries on to `return result`.
PropagateSwallowed(method) == NoError

\* A loop that wraps what a step raises in an error of its own.
PropagateWrapped(method) == StepError("extract")

\* The exception a caller of method(parsed, result) sees when the body raises.
Propagate(method) == StepError(method.name)

\* `for method in self._all_methods(): method(parsed, result)`
RECURSIVE RunMethods(_, _, _, _, _, _)
RunMethods(plan, i, doc, target, called, assigned) ==
    IF i > Len(plan)
    THEN [error |-> NoError, fault |-> NoFault, result |-> target,
          invoked |-> called, writes |-> assigned]
    ELSE LET out == Call(plan[i], doc, target)
             now == Append(called, plan[i].name)
             log == assigned \cup {<<k, plan[i].name>> : k \in out.assigned}
         IN IF out.raised
            THEN [error |-> Propagate(plan[i]), fault |-> out.fault,
                  result |-> out.target, invoked |-> now, writes |-> log]
            ELSE RunMethods(plan, i + 1, doc, out.target, now, log)

\* A mapping kept on the instance: created by the first call that needs one
\* and used again by every later call.
NewResultShared(held) ==
    IF held.isNone THEN [is_new |-> TRUE, items |-> EmptyDict]
    ELSE [is_new |-> FALSE, items |-> held.items]

\* `result = {}`: a new, empty mapping, whatever mapping an earlier call
\* returned.
NewResult(held) == [is_new |-> TRUE, items |-> EmptyDict]

\* The last call, as the state records it.
Called == returned \/ error # NoError
GatePassed == Called /\ error.kind # "NotSuccessful"

\* The mapping returned by the latest call that returned, this one included.
Held == IF returned THEN Dict(result) ELSE prevResult

\* extract, from the parsed document on.  (\E over a singleton names a value
\* that is computed once.)
Extract(doc) ==
    /\ metadata' = IF HasAttr(doc, "metadata") THEN Dict(doc.metadata) ELSE NoDict
    /\ prevReturned' = IF returned THEN List(invoked) ELSE prevReturned
    /\ prevDepError' = IF error.kind = "Dependency" THEN error ELSE prevDepError
    /\ IF ~IsSuccess(doc)
       THEN /\ error' = NotSuccessfulError
            /\ raised_on' = NoFault
            /\ invoked' = <<>>
            /\ result' = EmptyDict
            /\ writes' = {}
            /\ returned' = FALSE
            /\ constructed' = FALSE
            /\ rounds' = 0
            /\ discoveries' = 0
            /\ prevResult' = Held
            /\ UNCHANGED <<method_list, round_of>>
       ELSE \E plan \in {AllMethods(members, method_list)} :
            /\ method_list' = plan.method_list
            /\ constructed' = plan.constructed
            /\ rounds' = plan.rounds
            /\ discoveries' = plan.discoveries
            /\ round_of' = IF plan.constructed THEN plan.round_of ELSE round_of
            /\ IF plan.error # NoError
               THEN /\ error' = plan.error
                    /\ raised_on' = NoFault
                    /\ invoked' = <<>>
                    /\ result' = EmptyDict
                    /\ writes' = {}
                    /\ returned' = FALSE
                    /\ prevResult' = Held
               ELSE \E mapping \in {NewResult(Held)} :
                    \E run \in {RunMethods(plan.method_list.items, 1, doc,
                                           mapping.items, <<>>, {})} :
                       /\ error' = run.error
                       /\ raised_on' = run.fault
                       /\ invoked' = run.invoked
                       /\ result' = run.result
                       /\ writes' = run.writes
                       /\ returned' = (run.error = NoError)
                       /\ prevResult' = IF mapping.is_new THEN Held
                                        ELSE Dict(run.result)
    /\ UNCHANGED <<members, stepVars>>

\* __init__ of an instance of any of the classes.
Init ==
    /\ members \in Classes
    /\ method_list = None
    /\ metadata = NoDict
    /\ error = NoError
    /\ invoked = <<>>
    /\ result = EmptyDict
    /\ writes = {}
    /\ returned = FALSE
    /\ constructed = FALSE
    /\ rounds = 0
    /\ prevReturned = None
    /\ prevDepError = NoError
    /\ prevResult = NoDict
    /\ raised_on = NoFault
    /\ round_of = <<>>
    /\ discoveries = 0
    /\ step_parsed = NoDict
    /\ step_target = NoDict

Next == \E doc \in Documents(members) : Extract(doc)

Spec == Init /\ [][Next]_vars

----------------------------------------------------------------------------
(* Vocabulary of the properties *)

Names(methods) == [i \in DOMAIN methods |-> methods[i].name]

\* The declared step collection: the decorated members of the class.
Declared == {members[i] : i \in {j \in DOMAIN members : members[j].is_extractor}}
DeclaredNames == {m.name : m \in Declared}

\* The plan cached on the instance, as a list of steps.
Plan == method_list.items

IsPrefix(s, t) == Len(s) <= Len(t) /\ \A i \in DOMAIN s : s[i] = t[i]

\* s lists every name of the set exactly once.
ListsExactlyOnce(s, names) ==
    /\ {s[i] : i \in DOMAIN s} = names
    /\ Len(s) = Cardinality(names)

\* The keys that become available when steps are placed in strict rounds:
\* the least set closed under "a step whose dependencies are all available
\* makes its provides available".
RECURSIVE Available(_, _)
Available(steps, satisfied) ==
    LET runnable == {m \in steps : m.dependencies \subseteq satisfied}
        provided == UNION {m.provides : m \in runnable}
    IN IF provided \subseteq satisfied THEN satisfied
       ELSE Available(steps, satisfied \cup provided)

\* The steps that can never be placed.
NeverPlaceable ==
    {m \in Declared : ~(m.dependencies \subseteq Available(Declared, {}))}

\* The keys no declared step provides.
Unprovided ==
    {k \in UNION {m.dependencies : m \in Declared} :
        \A m \in Declared : k \notin m.provides}

----------------------------------------------------------------------------
(* Plan construction *)

\* The last call built the plan and construction did not raise.
ConstructionCompleted == constructed /\ error.kind # "Dependency"

\* C1 (ordering validity): when _construct_method_list completes without
\* raising, every dependency of every step of _method_list is in the
\* provides of a step strictly earlier in _method_list, whatever the
\* discovery order.
C1_OrderingValidity ==
    ConstructionCompleted =>
        \A i \in DOMAIN Plan :
            \A dependency \in Plan[i].dependencies :
                \E j \in 1..(i - 1) : dependency \in Plan[j].provides

\* A plan of three steps chained by dependencies, built against the
\* discovery order: s3 gives x, s2 needs x and gives y, s1 needs y.
C1_Witness ==
    /\ ConstructionCompleted
    /\ Names(Plan) = <<"s3", "s2", "s1">>
    /\ Plan[2].dependencies = {"x"}
    /\ Plan[3].dependencies = {"y"}

\* C2 (as claimed): after an extract call failed with the dependency error,
\* every later call with a gate-passing document fails with the same error
\* and runs no step.
C2_NoPartialPlanCached ==
    (GatePassed /\ prevDepError # NoError) =>
        /\ error = prevDepError
        /\ invoked = <<>>
        /\ ~returned

\* C3 (unsatisfiable graphs are detected): on the first call that passes the
\* gate, construction raises the dependency error iff some declared step can
\* never be placed; when it raises no step has been invoked and nothing is
\* returned, and when it does not the plan omits no declared step.
C3_UnsatisfiableDetected ==
    [][(method_list.isNone /\ GatePassed') =>
          /\ constructed'
          /\ (error'.kind = "Dependency") <=> (NeverPlaceable # {})
          /\ (error'.kind = "Dependency") =>
                 (invoked' = <<>> /\ writes' = {} /\ ~returned')
          /\ (error'.kind # "Dependency") =>
                 (DeclaredNames \subseteq {m.name : m \in {Plan'[i] : i \in DOMAIN Plan'}})
      ]_vars

\* Construction raised although one step was placeable: of three declared
\* steps, two wait for each other's keys.
C3_Witness ==
    /\ constructed
    /\ error.kind = "Dependency"
    /\ Cardinality(Declared) = 3
    /\ Len(Plan) = 1
    /\ \E a, b \in NeverPlaceable :
          /\ a # b
          /\ a.dependencies \cap b.provides # {}
          /\ b.dependencies \cap a.provides # {}
    /\ invoked = <<>>

----------------------------------------------------------------------------
(* The success gate *)

\* The document of the last call had no metadata, no success entry, or a
\* false success entry.
FailsGate(meta) ==
    \/ meta.isNone
    \/ "success" \notin DictKeys(meta.items)
    \/ <<"success", FALSE>> \in meta.items

\* C4 (success gate): in any state of the instance, a call whose document
\* has no metadata, no success entry or a false success entry ends with the
\* not-successful error, invokes no step, returns nothing and leaves
\* _method_list as it was.
C4_SuccessGate ==
    [][(Called' /\ FailsGate(metadata')) =>
          /\ error' = NotSuccessfulError
          /\ invoked' = <<>>
          /\ writes' = {}
          /\ ~returned'
          /\ ~constructed'
          /\ method_list' = method_list
      ]_vars

\* A document with metadata but no success entry, refused by an instance
\* that holds a cached plan and has returned a mapping before.
C4_Witness ==
    /\ metadata = Dict(EmptyDict)
    /\ error = NotSuccessfulError
    /\ Truthy(method_list)
    /\ ~prevReturned.isNone

----------------------------------------------------------------------------
(* Running the plan *)

\* C5 (every step exactly once): when construction succeeds _method_list
\* lists every decorated method exactly once and no other method; a call
\* that returns, on an instance whose construction succeeded, has invoked
\* every declared step exactly once, in plan order.
C5_EveryStepOnce ==
    /\ ConstructionCompleted => ListsExactlyOnce(Names(Plan), DeclaredNames)
    /\ (returned /\ prevDepError = NoError) =>
          /\ invoked = Names(Plan)
          /\ ListsExactlyOnce(invoked, DeclaredNames)

\* GenericExtractor built its plan and returned a mapping: its twelve
\* decorated methods ran, ten in the first round and two in the second.
C5_Witness ==
    /\ members = GenericExtractor
    /\ returned
    /\ constructed
    /\ invoked = <<"_extract_atom_data", "_extractor_charge",
                   "_extractor_multiplicity", "_extractor_num_atoms",
                   "_extractor_num_basis_sets", "_extractor_num_electrons",
                   "_extractor_optimizations", "_extractor_restricted",
                   "_extractor_scf_energy", "extract_homo_index",
                   "_extractor_excited_states", "_extractor_mos">>

\* The keys declared in the provides of any step.
DeclaredProvides == UNION {m.provides : m \in Declared}

\* C6 (as claimed): for GenericExtractor and NTOExtractor, the mapping a
\* successful call returns has every declared provides name as a key, and
\* each such key is assigned by exactly one step.
C6_ProvidesAreResultKeys ==
    (returned /\ members \in {GenericExtractor, NTOExtractor}) =>
        \A key \in DeclaredProvides :
            /\ key \in DictKeys(result)
            /\ Cardinality({w \in writes : w[1] = key}) = 1

\* C7 (the error names the unsatisfied keys): when construction fails the
\* named key set is not empty, holds every dependency key that no step
\* provides and no key provided by a placed step; it is {x, y} for the
\* two-step cycle and the missing key for a single step without provider.
C7_ErrorNamesUnsatisfied ==
    error.kind = "Dependency" =>
        /\ error.keys # {}
        /\ Unprovided \subseteq error.keys
        /\ \A i \in DOMAIN Plan : Plan[i].provides \cap error.keys = {}
        /\ members = <<Extractor("s1", {"y"}, {"x"}), Extractor("s2", {"x"}, {"y"})>>
              => error.keys = {"x", "y"}
        /\ members = <<Extractor("s1", {"y"}, {"x"})>> => error.keys = {"y"}

\* The two-step cycle failed, naming both keys although each has a provider.
C7_Witness ==
    /\ members = <<Extractor("s1", {"y"}, {"x"}), Extractor("s2", {"x"}, {"y"})>>
    /\ error = DependencyError({"x", "y"})
    /\ Unprovided = {}

\* C8 (as claimed): in a sequence of calls with gate-passing documents,
\* every call invokes the same sequence of step names.
C8_SameStepsEveryCall ==
    [][(GatePassed /\ GatePassed') => invoked' = invoked]_vars

\* C8 (amended): any two calls that return a mapping have invoked the same
\* sequence of step names.
C8_SameStepsEveryReturn ==
    (returned /\ ~prevReturned.isNone) => invoked = prevReturned.items

\* A call served from the cached plan returned its mapping, after an earlier
\* call had returned one.
C8_Witness ==
    /\ returned
    /\ ~prevReturned.isNone
    /\ ~constructed
    /\ Len(invoked) >= 2

\* C9 (as claimed): once _construct_method_list has executed on the
\* instance (it alone assigns _method_list), no later call executes it.
C9_ConstructedAtMostOnce ==
    [][~method_list.isNone => ~constructed']_vars

\* C10 (step failure propagation): when the k-th step of the plan raises,
\* the caller sees that step's error, exactly the first k steps were
\* invoked and nothing is returned; a cached plan is never changed by a
\* later call, which runs it from its first step, to the end unless a step
\* raises.
C10_StepFailurePropagates ==
    /\ [](error.kind = "Step" =>
            /\ invoked # <<>>
            /\ IsPrefix(invoked, Names(Plan))
            /\ error = StepError(invoked[Len(invoked)])
            /\ ~returned)
    /\ [][(Truthy(method_list) /\ GatePassed') =>
            /\ method_list' = method_list
            /\ invoked' # <<>>
            /\ IsPrefix(invoked', Names(Plan))
            /\ (error'.kind # "Step") => (returned' /\ invoked' = Names(Plan))
         ]_vars

\* The second of three steps raised, after an earlier call had returned.
C10_Witness ==
    /\ error.kind = "Step"
    /\ Len(Plan) = 3
    /\ Len(invoked) = 2
    /\ ~prevReturned.isNone

----------------------------------------------------------------------------
(* Result mappings *)

\* C11 (result mappings are per call): a call's mapping holds only entries
\* that a step of that very call assigned, whether the call returns or
\* raises; and the mapping an earlier call returned is left as it was by
\* every later call.
C11_MappingsArePerCall ==
    /\ [](\A p \in result : <<p[1], p[2]>> \in writes)
    /\ [][prevResult' = Held]_vars

\* A call returned a mapping, after an earlier call had returned one with
\* other values.
C11_Witness ==
    /\ returned
    /\ result # EmptyDict
    /\ ~prevResult.isNone
    /\ prevResult.items # result

----------------------------------------------------------------------------
(* Step bodies of the shipped extractors *)

\* C12 (as claimed): every read of a document attribute follows a presence
\* check of that attribute, so no step ever reads an attribute the document
\* does not expose.
C12_AttributesCheckedBeforeRead == raised_on.kind # "attribute"

----------------------------------------------------------------------------
(* Energies: _extractor_restricted, _extractor_mos and _extractor_scf_energy *)
(* on documents with numbers in them.  A float is modelled as the exact    *)
(* rational [num, den]; rounding is not modelled.                          *)

\* Largest number of orbitals in a set of moenergies, and of scfenergies.
MaxOrbitals == 2

\* 27.21138505 = 2721138505 / 10^8 = 544227701 / 20000000
EV_PER_HARTREE == [num |-> 544227701, den |-> 20000000]

\* 1.0 / x
Reciprocal(x) == [num |-> x.den, den |-> x.num]

EV_TO_HARTREE == Reciprocal(EV_PER_HARTREE)

\* 27.21138602 = 1360569301 / 50000000
HARTREE_TO_EV == [num |-> 1360569301, den |-> 50000000]

\* v * c for a float v that holds an integer.
Times(v, c) == [num |-> v * c.num, den |-> c.den]

\* A conversion with the NIST value of the constant.
TransformNist(v) == Times(v, Reciprocal(HARTREE_TO_EV))

\* lambda v: v * EV_TO_HARTREE
Transform(v) == Times(v, EV_TO_HARTREE)

\* The energies (eV) a document holds.
Energies == {-1, 2}
EnergyLists == UNION {[1..n -> Energies] : n \in 0..MaxOrbitals}

\* The documents: moenergies is missing, or holds one set (restricted) or
\* two (unrestricted); scfenergies is missing or holds at least one energy.
EnergyDocuments ==
    [moenergies : {None} \cup {List(<<a>>) : a \in EnergyLists}
                         \cup {List(<<a, b>>) : a, b \in EnergyLists},
     scfenergies : {None} \cup {List(e) : e \in EnergyLists \ {<<>>}}]

\* Python truth value of target['restricted']: None, True or False.
IsTrue(value) == value = "True"

\* [transform(item) for item in data]
TransformAll(data) == [i \in DOMAIN data |-> Transform(data[i])]

\* The keys _extractor_mos adds to mos for the property moenergies.
MoEnergies(doc, restricted) ==
    IF doc.moenergies.isNone THEN {}
    ELSE IF IsTrue(restricted)
    THEN {<<"energies", TransformAll(doc.moenergies.items[1])>>}
    ELSE {<<"alpha_energies", TransformAll(doc.moenergies.items[1])>>,
          <<"beta_energies", TransformAll(doc.moenergies.items[2])>>}

\* _extractor_restricted
RestrictedStep ==
    /\ ~step_parsed.isNone
    /\ "restricted" \notin DictKeys(step_target.items)
    /\ step_target' =
          Dict(step_target.items \cup
               {<<"restricted",
                  IF step_parsed.items.moenergies.isNone THEN "None"
                  ELSE IF Len(step_parsed.items.moenergies.items) = 1 THEN "True"
                  ELSE "False">>})
    /\ UNCHANGED <<schedulerVars, step_parsed>>

\* _extractor_mos, which the plan runs after _extractor_restricted.  The
\* documents expose neither nmo nor mosyms.
MosStep ==
    /\ ~step_parsed.isNone
    /\ "restricted" \in DictKeys(step_target.items)
    /\ "mos" \notin DictKeys(step_target.items)
    /\ step_target' =
          Dict(step_target.items \cup
               {<<"mos", {<<"num_mos", "None">>}
                         \cup MoEnergies(step_parsed.items,
                                         Get(step_target.items, "restricted", "None"))>>})
    /\ UNCHANGED <<schedulerVars, step_parsed>>

\* _extractor_scf_energy
ScfEnergyStep ==
    /\ ~step_parsed.isNone
    /\ "scf_energy" \notin DictKeys(step_target.items)
    /\ step_target' =
          Dict(step_target.items \cup
               {<<"scf_energy",
                  IF step_parsed.items.scfenergies.isNone THEN "None"
                  ELSE LET e == step_parsed.items.scfenergies.items
                       IN Times(e[Len(e)], EV_TO_HARTREE)>>})
    /\ UNCHANGED <<schedulerVars, step_parsed>>

\* A GenericExtractor whose steps are about to run on a document: result = {}.
EnergyInit ==
    /\ members = GenericExtractor
    /\ method_list = None
    /\ metadata = NoDict
    /\ error = NoError
    /\ invoked = <<>>
    /\ result = EmptyDict
    /\ writes = {}
    /\ returned = FALSE
    /\ constructed = FALSE
    /\ rounds = 0
    /\ prevReturned = None
    /\ prevDepError = NoError
    /\ prevResult = NoDict
    /\ raised_on = NoFault
    /\ round_of = <<>>
    /\ discoveries = 0
    /\ step_parsed \in {Dict(doc) : doc \in EnergyDocuments}
    /\ step_target = Dict(EmptyDict)

EnergyNext == RestrictedStep \/ MosStep \/ ScfEnergyStep

EnergySpec == EnergyInit /\ [][EnergyNext]_vars

\* v eV in Hartree, with 1 / 27.21138505 = 20000000 / 544227701.
InHartree(v) == [num |-> v * 20000000, den |-> 544227701]
AllInHartree(data) == [i \in DOMAIN data |-> InHartree(data[i])]

\* C13 (unit conversions are element-wise): once _extractor_mos has run on
\* a document with one set of moenergies, mos['energies'] is that set times
\* 1/27.21138505, item by item in the same order; with two sets,
\* mos['alpha_energies'] and mos['beta_energies'] are sets 0 and 1 likewise;
\* once _extractor_scf_energy has run, scf_energy is the last of scfenergies
\* times the same constant.
C13_ConversionsElementWise ==
    LET doc == step_parsed.items
        t == step_target.items
        mos == Get(t, "mos", {})
    IN /\ ("mos" \in DictKeys(t) /\ ~doc.moenergies.isNone) =>
            IF Len(doc.moenergies.items) = 1
            THEN /\ "energies" \in DictKeys(mos)
                 /\ Get(mos, "energies", <<>>) = AllInHartree(doc.moenergies.items[1])
            ELSE /\ {"alpha_energies", "beta_energies"} \subseteq DictKeys(mos)
                 /\ Get(mos, "alpha_energies", <<>>)
                        = AllInHartree(doc.moenergies.items[1])
                 /\ Get(mos, "beta_energies", <<>>)
                        = AllInHartree(doc.moenergies.items[2])
       /\ ("scf_energy" \in DictKeys(t) /\ ~doc.scfenergies.isNone) =>
            Get(t, "scf_energy", "None")
                = InHartree(doc.scfenergies.items[Len(doc.scfenergies.items)])

\* Both steps have run on an unrestricted document whose sets, and whose
\* scfenergies, hold different numbers.
C13_Witness ==
    LET doc == step_parsed.items
        t == step_target.items
    IN /\ {"mos", "scf_energy"} \subseteq DictKeys(t)
       /\ ~doc.moenergies.isNone
       /\ Len(doc.moenergies.items) = 2
       /\ doc.moenergies.items[1] = <<-1, 2>>
       /\ doc.moenergies.items[2] = <<2, -1>>
       /\ ~doc.scfenergies.isNone
       /\ doc.scfenergies.items = <<2, -1>>
       /\ "beta_energies" \in DictKeys(Get(t, "mos", {}))

----------------------------------------------------------------------------
(* Rounds of the construction *)

\* The methods of the list that iteration r of the while loop added.
PlacedIn(r) == {i \in DOMAIN Plan : round_of[i] = r}

\* C14 (as claimed): every dependency of a step placed in round r is
\* provided by a step placed in a round strictly before r, the plan is the
\* concatenation of the rounds, and so no step with dependencies is placed
\* in the first round.
C14_StrictRounds ==
    /\ Len(round_of) = Len(Plan)
    /\ \A i, j \in DOMAIN Plan : i < j => round_of[i] <= round_of[j]
    /\ \A i \in DOMAIN Plan :
          /\ \A d \in Plan[i].dependencies :
                \E j \in DOMAIN Plan :
                    round_of[j] < round_of[i] /\ d \in Plan[j].provides
          /\ Plan[i].dependencies # {} => round_of[i] # 1

\* C14 (amended): every dependency of a step placed in round r is provided
\* by a step placed earlier in the plan, in a round before r or earlier in
\* round r, and the plan is the concatenation of the rounds.
C14_RoundsInScanOrder ==
    /\ Len(round_of) = Len(Plan)
    /\ \A i, j \in DOMAIN Plan : i < j => round_of[i] <= round_of[j]
    /\ \A i \in DOMAIN Plan :
          \A d \in Plan[i].dependencies :
              \E j \in 1..(i - 1) :
                  round_of[j] <= round_of[i] /\ d \in Plan[j].provides

\* A construction placed a step with dependencies in its first round, and
\* another step in its second.
C14_Witness ==
    /\ ConstructionCompleted
    /\ \E i \in PlacedIn(1) : Plan[i].dependencies # {}
    /\ PlacedIn(2) # {}

\* C15 (construction terminates): an execution of _construct_method_list on
\* n declared steps ends after at most n + 1 iterations of the while loop;
\* every iteration but the last adds a step, the last adds none, no step is
\* added twice, and the execution ends with every declared step in the list
\* or with the dependency error.
C15_ConstructionTerminates ==
    constructed =>
        /\ rounds >= 1
        /\ rounds <= Cardinality(Declared) + 1
        /\ \A r \in 1..(rounds - 1) : PlacedIn(r) # {}
        /\ PlacedIn(rounds) = {}
        /\ \A i, j \in DOMAIN Plan : i # j => Plan[i] # Plan[j]
        /\ \/ error.kind = "Dependency"
           \/ ListsExactlyOnce(Names(Plan), DeclaredNames)

\* A construction on three declared steps took four iterations.
C15_Witness ==
    /\ ConstructionCompleted
    /\ Cardinality(Declared) = 3
    /\ rounds = 4

\* C16 (as claimed): _get_all_extractor_methods is executed at most once in
\* the lifetime of an instance: never twice in one call, and never again
\* once a call has executed it (_method_list is assigned only by
\* _construct_method_list, right before the discovery).
C16_DiscoveredOnce ==
    /\ [](discoveries <= 1)
    /\ [][~method_list.isNone => discoveries' = 0]_vars

----------------------------------------------------------------------------
(* Declared keys *)

\* The keys that more than one declared step provides.
Colliding ==
    {k \in DeclaredProvides :
        \E m1, m2 \in Declared : m1 # m2 /\ k \in m1.provides /\ k \in m2.provides}

\* C17 (provides collisions are not validated): when two declared steps
\* provide the same key and no step is left without its dependencies,
\* construction raises no error and places every step; a call that returns
\* has run them all, and the key holds what the later of its providers in
\* the plan assigned.
C17_CollisionLastWriteWins ==
    (Colliding # {} /\ NeverPlaceable = {}) =>
        /\ error.kind # "Dependency"
        /\ constructed => ListsExactlyOnce(Names(Plan), DeclaredNames)
        /\ returned =>
              /\ invoked = Names(Plan)
              /\ \A k \in Colliding :
                    \E i \in DOMAIN Plan :
                        /\ k \in Plan[i].provides
                        /\ \A j \in DOMAIN Plan : j > i => k \notin Plan[j].provides
                        /\ \E p \in result : p[1] = k /\ p[2] = Plan[i].name

\* A call returned after running two steps that both provide x, the second
\* of which depends on the first.
C17_Witness ==
    /\ returned
    /\ \E i, j \in DOMAIN Plan :
          /\ i < j
          /\ "x" \in Plan[i].provides
          /\ "x" \in Plan[j].provides
          /\ "x" \in Plan[j].dependencies
    /\ "x" \in DictKeys(result)

\* C18 (order independence): whatever the discovery order, a construction
\* places exactly the declared steps whose dependencies lie in the least
\* fixed point of "a step whose dependencies are all available makes its
\* provides available"; it raises iff some declared step is outside, and
\* the error names the declared dependencies outside that fixed point.
\* Nothing on the right-hand sides depends on the order of members.
C18_OrderIndependent ==
    constructed =>
        /\ {Plan[i] : i \in DOMAIN Plan} = Declared \ NeverPlaceable
        /\ error.kind = "Dependency" <=> NeverPlaceable # {}
        /\ error.kind = "Dependency" =>
              error.keys = UNION {m.dependencies : m \in Declared}
                               \ Available(Declared, {})

\* A construction raised on a class in which a placeable step is discovered
\* after a step that depends on it and after a step that can never be
\* placed.
C18_Witness ==
    /\ constructed
    /\ error.kind = "Dependency"
    /\ Len(members) = 3
    /\ members[1] \in NeverPlaceable
    /\ members[2] \in Declared \ NeverPlaceable
    /\ members[2].dependencies # {}
    /\ members[3].provides = members[2].dependencies

----------------------------------------------------------------------------
(* Reads of result keys in GenericExtractor *)

\* In the last call, reader did not run unless writer had run before it and
\* assigned key.
WrittenBefore(key, writer, reader) ==
    \A j \in DOMAIN invoked :
        invoked[j] = reader =>
            /\ \E i \in 1..(j - 1) : invoked[i] = writer
            /\ <<key, writer>> \in writes

\* C19 (no read-before-write in GenericExtractor): in every call each step
\* that reads a result key runs after the step that writes it, and no step
\* raises on a missing result key.
C19_NoReadBeforeWrite ==
    members = GenericExtractor =>
        /\ raised_on.kind # "key"
        /\ WrittenBefore("restricted", "_extractor_restricted", "_extractor_mos")
        /\ WrittenBefore("atoms", "_extract_atom_data", "_extractor_optimizations")
        /\ WrittenBefore("optimization_steps", "_extractor_optimizations",
                         "_extractor_excited_states")
        /\ WrittenBefore("restricted", "_extractor_restricted",
                         "_extractor_excited_states")
        /\ WrittenBefore("multiplicity", "_extractor_multiplicity",
                         "extract_homo_index")
        /\ WrittenBefore("num_electrons", "_extractor_num_electrons",
                         "extract_homo_index")

\* A GenericExtractor call returned in which _extractor_mos and
\* _extractor_excited_states read the result keys (moenergies and etenergies
\* are exposed).
C19_Witness ==
    /\ members = GenericExtractor
    /\ returned
    /\ \E p \in result : p[1] = "restricted" /\ p[3] = "object"
    /\ \E j \in DOMAIN invoked : invoked[j] = "_extractor_excited_states"
    /\ \E j \in DOMAIN invoked : invoked[j] = "_extractor_mos"

----------------------------------------------------------------------------
(* Excited states: _extractor_excited_states on a document that exposes    *)
(* etenergies, etsyms, etoscs and etsecs, all of one length.  A state is   *)
(* modelled by its index in those lists.                                   *)

\* Largest number of entries of etenergies.
MaxExcitedStates == 4
\* Largest value of target['optimization_steps'].
MaxOptimizationSteps == 3

\* The multiplicity part of an entry of etsyms, in lower case.
Multiplicities == {"singlet", "triplet", "doublet"}

\* The documents, as the entries of etsyms.
ExcitedStateDocuments ==
    UNION {[1..n -> Multiplicities] : n \in 0..MaxExcitedStates}

\* int(a / b) for a >= 0, b > 0
IntDiv(a, b) == a \div b

\* excited_state_start_index and excited_state_end_index
Window(num_etenergies, num_optimization_steps) ==
    LET num_excited_states ==
            IF num_optimization_steps # 0
            THEN IntDiv(num_etenergies, num_optimization_steps)
            ELSE num_etenergies
        start == IF num_optimization_steps # 0
                 THEN (num_optimization_steps - 1) * num_excited_states
                 ELSE 0
    IN [start |-> start, end |-> start + num_excited_states]

\* state_list: the list of the multiplicity if there is one, else 'unknown'.
StateList(multiplicity) ==
    IF multiplicity \in {"singlet", "triplet"} THEN multiplicity ELSE "unknown"

\* for index in range(start, end): ... state_list.append(...)
\* Python indices count from 0, sequences from 1.
RECURSIVE AppendStates(_, _, _, _)
AppendStates(etsyms, index, end, excited_states) ==
    IF index >= end THEN excited_states
    ELSE LET state_list == StateList(etsyms[index + 1])
         IN AppendStates(etsyms, index + 1, end,
                [excited_states EXCEPT ![state_list] = Append(@, index)])

\* _extractor_excited_states
ExcitedStatesStep ==
    /\ ~step_parsed.isNone
    /\ "excited_states" \notin DictKeys(step_target.items)
    /\ LET etsyms == step_parsed.items
           window == Window(Len(etsyms),
                            Get(step_target.items, "optimization_steps", 0))
           empty == [singlet |-> <<>>, triplet |-> <<>>, unknown |-> <<>>]
       IN step_target' =
             [isNone |-> FALSE,
              items |-> step_target.items \cup
                        {<<"excited_states",
                           AppendStates(etsyms, window.start, window.end, empty)>>},
              locals |-> window]
    /\ UNCHANGED <<schedulerVars, step_parsed>>

\* A GenericExtractor about to run _extractor_excited_states, after
\* _extractor_optimizations has assigned target['optimization_steps'].
WindowInit ==
    /\ members = GenericExtractor
    /\ method_list = None
    /\ metadata = NoDict
    /\ error = NoError
    /\ invoked = <<>>
    /\ result = EmptyDict
    /\ writes = {}
    /\ returned = FALSE
    /\ constructed = FALSE
    /\ rounds = 0
    /\ prevReturned = None
    /\ prevDepError = NoError
    /\ prevResult = NoDict
    /\ raised_on = NoFault
    /\ round_of = <<>>
    /\ discoveries = 0
    /\ step_parsed \in {Dict(etsyms) : etsyms \in ExcitedStateDocuments}
    /\ step_target \in {[isNone |-> FALSE,
                         items |-> {<<"optimization_steps", s>>},
                         locals |-> [start |-> 0, end |-> 0]] :
                            s \in 0..MaxOptimizationSteps}

WindowNext == ExcitedStatesStep

WindowSpec == WindowInit /\ [][WindowNext]_vars

\* C20 (as claimed): once _extractor_excited_states has run on etenergies
\* of length L with target['optimization_steps'] = s, the range read
\* satisfies 0 <= start <= end <= L; with s = 0 it is the whole list; with
\* s > 0 it has floor(L/s) entries and ends at index L; and the states
\* appended to the three lists are end - start in number.
C20_WindowIsFinalBlock ==
    "excited_states" \in DictKeys(step_target.items) =>
        LET L == Len(step_parsed.items)
            s == Get(step_target.items, "optimization_steps", 0)
            start == step_target.locals.start
            end == step_target.locals.end
            excited_states == Get(step_target.items, "excited_states", <<>>)
        IN /\ 0 <= start /\ start <= end /\ end <= L
           /\ s = 0 => (start = 0 /\ end = L)
           /\ s > 0 => (end - start = L \div s /\ end = L)
           /\ Len(excited_states.singlet) + Len(excited_states.triplet)
                 + Len(excited_states.unknown) = end - start

----------------------------------------------------------------------------
(* NTO contributions: _extract_nto_coefficients of NTOExtractor on a       *)
(* document that exposes moenergies and homos.  One pass of the while loop *)
(* is one step.                                                            *)

\* Largest number of orbitals in moenergies[0], and HOMO indices 0..Max - 1.
MaxNtoOrbitals == 3

\* NTO_CRITERIA = 0.01
NTO_CRITERIA == [num |-> 1, den |-> 100]

\* x > y for floats x and y with positive denominators.
GreaterThan(x, y) == x.num * y.den > y.num * x.den

\* The energies (eV) an orbital list holds: 1 eV is above the criterion,
\* 0 and -1 are not.
NtoEnergies == {-1, 0, 1}

\* The documents: moenergies[0] and homos[0].
NtoDocuments ==
    [moenergies : UNION {[1..n -> NtoEnergies] : n \in 0..MaxNtoOrbitals},
     homo : 0..(MaxNtoOrbitals - 1)]

\* sequence[index] in Python: indices count from 0, a negative index counts
\* from the end, and an index outside -len..len-1 raises IndexError.
InRange(sequence, index) == -Len(sequence) <= index /\ index < Len(sequence)
Item(sequence, index) ==
    IF index >= 0 THEN sequence[index + 1] ELSE sequence[Len(sequence) + index + 1]

\* The locals of the step, and where it stands: "loop" at the test of the
\* while, "returned" after the last assignment, "raised" after IndexError.
NtoLocals(pc, orbit_number, exci_orbit, contribution, entries) ==
    [pc |-> pc, orbit_number |-> orbit_number, exci_orbit |-> exci_orbit,
     contribution |-> contribution, result |-> entries]

\* contribution = parsed.moenergies[0][orbit_number] * EV_TO_HARTREE
ReadContribution(doc, locals, orbit_number, exci_orbit, entries) ==
    IF InRange(doc.moenergies, orbit_number)
    THEN NtoLocals("loop", orbit_number, exci_orbit,
                   Times(Item(doc.moenergies, orbit_number), EV_TO_HARTREE),
                   entries)
    ELSE [locals EXCEPT !.pc = "raised"]

\* From target['nto_contributions'] = None to the first test of the while.
NtoBegin ==
    /\ ~step_parsed.isNone
    /\ step_target.locals.pc = "start"
    /\ LET homo == step_parsed.items.homo
       IN step_target' =
             [isNone |-> FALSE,
              items |-> {<<"nto_contributions", "None">>},
              locals |-> ReadContribution(step_parsed.items, step_target.locals,
                                          homo, homo + 1, <<>>)]
    /\ UNCHANGED <<schedulerVars, step_parsed>>

\* One pass of the while loop.
NtoIterate ==
    /\ ~step_parsed.isNone
    /\ step_target.locals.pc = "loop"
    /\ GreaterThan(step_target.locals.contribution, NTO_CRITERIA)
    /\ LET l == step_target.locals
           entries == Append(l.result,
                             [from |-> l.orbit_number + 1, to |-> l.exci_orbit + 1,
                              contribution |-> l.contribution])
       IN step_target' =
             [step_target EXCEPT
                 !.locals = ReadContribution(step_parsed.items,
                                             [l EXCEPT !.result = entries],
                                             l.orbit_number - 1, l.exci_orbit + 1,
                                             entries)]
    /\ UNCHANGED <<schedulerVars, step_parsed>>

\* The while test fails: target['nto_contributions'] = result.
NtoEnd ==
    /\ ~step_parsed.isNone
    /\ step_target.locals.pc = "loop"
    /\ ~GreaterThan(step_target.locals.contribution, NTO_CRITERIA)
    /\ step_target' =
          [step_target EXCEPT
              !.items = {<<"nto_contributions", step_target.locals.result>>},
              !.locals.pc = "returned"]
    /\ UNCHANGED <<schedulerVars, step_parsed>>

\* An NTOExtractor about to run its step on a document: result = {}.
NtoInit ==
    /\ members = NTOExtractor
    /\ method_list = None
    /\ metadata = NoDict
    /\ error = NoError
    /\ invoked = <<>>
    /\ result = EmptyDict
    /\ writes = {}
    /\ returned = FALSE
    /\ constructed = FALSE
    /\ rounds = 0
    /\ prevReturned = None
    /\ prevDepError = NoError
    /\ prevResult = NoDict
    /\ raised_on = NoFault
    /\ round_of = <<>>
    /\ discoveries = 0
    /\ step_parsed \in {Dict(doc) : doc \in NtoDocuments}
    /\ step_target = [isNone |-> FALSE, items |-> EmptyDict,
                      locals |-> NtoLocals("start", 0, 0, Times(0, EV_TO_HARTREE),
                                           <<>>)]

NtoNext == NtoBegin \/ NtoIterate \/ NtoEnd

NtoSpec == NtoInit /\ [][NtoNext]_vars

\* C21 (as claimed): every entry the loop has recorded has a contribution
\* above NTO_CRITERIA, a 'from' in 1..homo+1 and 'to' = 2*homo + 3 - 'from';
\* the entries are consecutive orbitals from homo+1 / homo+2 on; and the
\* loop stops at the first orbital whose contribution is not above the
\* criterion.
C21_NtoScan ==
    LET homo == step_parsed.items.homo
        entries == step_target.locals.result
    IN /\ \A i \in DOMAIN entries :
             /\ GreaterThan(entries[i].contribution, NTO_CRITERIA)
             /\ entries[i].from \in 1..(homo + 1)
             /\ entries[i].to = 2 * homo + 3 - entries[i].from
             /\ entries[i].from = homo + 2 - i
       /\ step_target.locals.pc = "returned" =>
             /\ ~GreaterThan(step_target.locals.contribution, NTO_CRITERIA)
             /\ step_target.locals.orbit_number = homo - Len(entries)

----------------------------------------------------------------------------
(* render_mos of generate_report.py, with cubegen_mo of                    *)
(* drivers/cubegen_driver.py.  formchk_file is an absolute path into an    *)
(* existing directory work_dir, as every call of the script passes it; the *)
(* files of work_dir are <<mo, extension>> pairs.  One pass of the for     *)
(* loop is one step.                                                       *)

\* Largest number of orbitals requested in one call.
MaxMos == 2

\* The orbital numbers a call may request.
Orbitals == {1, 2}

\* A path: the directory it names ("" for a bare file name) and the file.
Path(dir, mo, ext) == [dir |-> dir, mo |-> mo, ext |-> ext]

\* os.path.join(work_dir, '{}.<ext>'.format(mo))
Join(dir, mo, ext) == Path(dir, mo, ext)

\* os.path.exists(path) with the process in directory cwd: a bare file name
\* is looked up in cwd; only work_dir holds files.
Exists(files, cwd, path) ==
    LET dir == IF path.dir = "" THEN cwd ELSE path.dir
    IN dir = "work_dir" /\ <<path.mo, path.ext>> \in files

\* What subprocess.call(command) can do: run the tool, which writes its
\* output file ("written") or does not ("failed", the exit code is dropped),
\* or raise OSError because the tool cannot be started ("raised").
Outcomes == {"written", "failed", "raised"}

\* The files after a tool wrote mo.<ext> into the current directory.
Written(files, cwd, mo, ext, outcome) ==
    IF outcome = "written" /\ cwd = "work_dir" THEN files \cup {<<mo, ext>>}
    ELSE files

\* cubegen_mo(formchk_file, mo): the name of the cube file, relative.
CubegenMo(mo) == Path("", mo, "cube")

\* A call of render_mos where it stands: pc is "start", "loop" (at the head
\* of the for loop, about to take mos[index]), "returned" or "raised".
\* calls logs every subprocess.call with whether the tool's output file
\* existed at that moment.
RenderLocals(pc, pwd, cwd, index, generated_images, calls) ==
    [pc |-> pc, pwd |-> pwd, cwd |-> cwd, index |-> index,
     generated_images |-> generated_images, calls |-> calls]

\* pwd = os.getcwd(); os.chdir(work_dir)
RenderBegin ==
    /\ ~step_parsed.isNone
    /\ step_target.locals.pc = "start"
    /\ step_target' =
          [step_target EXCEPT
              !.locals = RenderLocals("loop", step_target.locals.cwd, "work_dir",
                                      1, <<>>, <<>>)]
    /\ UNCHANGED <<schedulerVars, step_parsed>>

\* An exception leaves render_mos: os.chdir(pwd) is not reached.
Leave(locals) == [locals EXCEPT !.pc = "raised"]

\* One pass of `for mo in mos`.
RenderMo ==
    /\ ~step_parsed.isNone
    /\ step_target.locals.pc = "loop"
    /\ step_target.locals.index <= Len(step_parsed.items)
    /\ \E cubegen, render \in Outcomes :
          LET l == step_target.locals
              files == step_target.items
              mo == step_parsed.items[l.index]
              png_file == Join("work_dir", mo, "png")
              no_cube == ~Exists(files, l.cwd, Join("work_dir", mo, "cube"))
              cube_file == IF no_cube THEN CubegenMo(mo)
                           ELSE Join("work_dir", mo, "cube")
              calls1 == IF no_cube
                        THEN Append(l.calls,
                                    [tool |-> "cubegen", mo |-> mo,
                                     present |-> Exists(files, l.cwd,
                                                    Join("work_dir", mo, "cube"))])
                        ELSE l.calls
              files1 == IF no_cube THEN Written(files, l.cwd, mo, "cube", cubegen)
                        ELSE files
              no_png == ~Exists(files1, l.cwd, png_file)
              calls2 == IF no_png
                        THEN Append(calls1,
                                    [tool |-> "render.py", mo |-> mo,
                                     present |-> Exists(files1, l.cwd, png_file)])
                        ELSE calls1
              files2 == IF no_png THEN Written(files1, l.cwd, mo, "png", render)
                        ELSE files1
          IN IF no_cube /\ cubegen = "raised"
             THEN step_target' =
                     [step_target EXCEPT
                         !.locals = Leave([l EXCEPT !.calls = calls1])]
             ELSE IF no_png /\ render = "raised"
             THEN step_target' =
                     [step_target EXCEPT
                         !.items = files1,
                         !.locals = Leave([l EXCEPT !.calls = calls2])]
             ELSE step_target' =
                     [step_target EXCEPT
                         !.items = files2,
                         !.locals = [l EXCEPT
                             !.index = l.index + 1,
                             !.calls = calls2,
                             !.generated_images = Append(@, png_file)]]
    /\ UNCHANGED <<schedulerVars, step_parsed>>

\* os.chdir(pwd); return generated_images
RenderEnd ==
    /\ ~step_parsed.isNone
    /\ step_target.locals.pc = "loop"
    /\ step_target.locals.index > Len(step_parsed.items)
    /\ step_target' =
          [step_target EXCEPT !.locals.pc = "returned",
                              !.locals.cwd = step_target.locals.pwd]
    /\ UNCHANGED <<schedulerVars, step_parsed>>

\* The script is about to call render_mos(formchk_file, mos) from directory
\* pwd, with any subset of the cube and png files in work_dir.
RenderInit ==
    /\ members = GenericExtractor
    /\ method_list = None
    /\ metadata = NoDict
    /\ error = NoError
    /\ invoked = <<>>
    /\ result = EmptyDict
    /\ writes = {}
    /\ returned = FALSE
    /\ constructed = FALSE
    /\ rounds = 0
    /\ prevReturned = None
    /\ prevDepError = NoError
    /\ prevResult = NoDict
    /\ raised_on = NoFault
    /\ round_of = <<>>
    /\ discoveries = 0
    /\ step_parsed \in {List(mos) :
                          mos \in UNION {[1..n -> Orbitals] : n \in 0..MaxMos}}
    /\ step_target \in {[isNone |-> FALSE, items |-> files,
                         locals |-> RenderLocals("start", "pwd", "pwd", 1,
                                                 <<>>, <<>>)] :
                            files \in SUBSET (Orbitals \X {"cube", "png"})}

RenderNext == RenderBegin \/ RenderMo \/ RenderEnd

RenderSpec == RenderInit /\ [][RenderNext]_vars

\* The image paths render_mos is to return for the orbitals mos, in order.
ImagesOf(mos) == [i \in DOMAIN mos |-> Join("work_dir", mos[i], "png")]

(* C22: render_mos returns exactly one image path per requested orbital,   *)
(* in the order of the input list, whatever cube and png files already     *)
(* exist; every invocation of the cube generator or of the renderer found  *)
(* its output file absent; and once the call is over, by return or by an   *)
(* exception, the working directory is the one the call started in.        *)
C22_RenderMos ==
    LET l == step_target.locals
    IN /\ l.pc = "returned" =>
             l.generated_images = ImagesOf(step_parsed.items)
       /\ \A i \in DOMAIN l.calls : ~l.calls[i].present
       /\ l.pc \in {"returned", "raised"} => l.cwd = l.pwd

====
